---- MODULE Spec2Model ----
(***************************************************************************)
(* A model of the shift-recon rule engine: the row validator and the three *)
(* checkers of analyzer.py, the rule tables of config.py, and the chunked  *)
(* "Run Analysis" handler of app.py.                                       *)
(*                                                                         *)
(* Timestamps are whole minutes counted from 0001-01-01 00:00 (the         *)
(* proleptic Gregorian ordinal times 1440), so durations are exact; hours  *)
(* are carried as minutes (hours * 60) to stay within the integers.        *)
(***************************************************************************)
EXTENDS Integers, Sequences, FiniteSets, TLC

VARIABLES
    df,                 \* the uploaded table: a sequence of rows (st.session_state.df)
    SHIFT_TYPE_LIMITS,  \* config.py's quota table, (serviceType, rateType) -> limit
    EMPLOYEE_HOUR_LIMITS, \* config.py's hour caps, employee -> hours
    DEFAULT_HOUR_LIMIT, \* config.py's cap for employees not listed, negative: none
    RATE_CARD_MAP,      \* config.py's rate card, key -> rate in pence
    rate_issues,        \* what check_rate_mismatches returned, NotRun before
    tieRank,            \* how this build's sort orders rows of equal start time
    week_of,            \* a call of get_week_number: its argument and what it returned
    pc,                 \* analyze_workforce_data's position: "idle" or "validated"
    valid_df,           \* analyze_workforce_data's valid_df
    error_rows,         \* analyze_workforce_data's error_rows
    results,            \* what analyze_workforce_data returned, NoResults before
    is_processing,      \* st.session_state.is_processing
    chunk_start,        \* the chunk loop's `start`
    unallowed,          \* the chunk loop's three accumulators
    duplicates,
    over_allocs,
    session_results     \* st.session_state.results, NoResults before

vars == <<df, SHIFT_TYPE_LIMITS, EMPLOYEE_HOUR_LIMITS, DEFAULT_HOUR_LIMIT, RATE_CARD_MAP,
          rate_issues, tieRank, week_of, pc, valid_df, error_rows, results,
          is_processing, chunk_start, unallowed, duplicates, over_allocs, session_results>>

(***************************************************************************)
(* Cells.  A text cell is a string; NaN is pandas' missing cell.  A raw    *)
(* timestamp cell is a record: missing, the empty string, free text that   *)
(* is no date, or "first/second/year hour:minute".                         *)
(***************************************************************************)
NaN == "<NaN>"

None == -1

RawNaN == [kind |-> "nan", first |-> 0, second |-> 0, year |-> 0, hour |-> 0, minute |-> 0]

RawEmpty == [kind |-> "empty", first |-> 0, second |-> 0, year |-> 0, hour |-> 0, minute |-> 0]

RawText == [kind |-> "text", first |-> 0, second |-> 0, year |-> 0, hour |-> 0, minute |-> 0]

Raw(a, b, y, hh, mi) ==
    [kind |-> "date", first |-> a, second |-> b, year |-> y, hour |-> hh, minute |-> mi]

\* pd.isna(x) or x == ''
IsBlank(x) == x = NaN \/ x = ""

IsBlankRaw(raw) == raw.kind \in {"nan", "empty"}

\* Python's ==, != and truth value on text cells: NaN equals nothing, itself
\* included, and is true; the empty string is false.
PyEq(a, b) == a # NaN /\ b # NaN /\ a = b

PyNe(a, b) == ~PyEq(a, b)

Truthy(a) == a # ""

(***************************************************************************)
(* Time & unit normalizer.                                                 *)
(***************************************************************************)
IsLeap(y) == (y % 4 = 0 /\ y % 100 # 0) \/ y % 400 = 0

DaysInMonth(y, m) ==
    CASE m \in {4, 6, 9, 11} -> 30
      [] m = 2 -> IF IsLeap(y) THEN 29 ELSE 28
      [] OTHER -> 31

RECURSIVE DaysBeforeMonth(_, _)
DaysBeforeMonth(y, m) ==
    IF m <= 1 THEN 0 ELSE DaysBeforeMonth(y, m - 1) + DaysInMonth(y, m - 1)

\* datetime.date(y, m, d).toordinal(): day 1 is 0001-01-01, a Monday.
ToOrdinal(y, m, d) ==
    365 * (y - 1) + ((y - 1) \div 4) - ((y - 1) \div 100) + ((y - 1) \div 400)
        + DaysBeforeMonth(y, m) + d

ValidDate(y, m, d) == y >= 1 /\ m \in 1..12 /\ d >= 1 /\ d <= DaysInMonth(y, m)

\* pd.to_datetime(s, dayfirst=True): the first number is the day unless that
\* gives no date and the other reading does; None stands for the exception.
to_datetime(raw) ==
    LET clock == raw.hour \in 0..23 /\ raw.minute \in 0..59
        stamp(m, d) == ToOrdinal(raw.year, m, d) * 1440 + raw.hour * 60 + raw.minute
    IN  IF raw.kind # "date" \/ ~clock THEN None
        ELSE IF ValidDate(raw.year, raw.second, raw.first) THEN stamp(raw.second, raw.first)
        ELSE IF ValidDate(raw.year, raw.first, raw.second) THEN stamp(raw.first, raw.second)
        ELSE None

parse_datetime(dt_str) ==
    IF IsBlankRaw(dt_str) THEN None ELSE to_datetime(dt_str)

\* Timestamp.date(), as the day's ordinal
DateOf(dt) == IF dt = None THEN None ELSE dt \div 1440

\* calculate_hours, in minutes: 0 when an endpoint is missing, never clamped
calculate_hours(start_dt, end_dt) ==
    IF start_dt = None \/ end_dt = None THEN 0 ELSE end_dt - start_dt

\* the year of a day's ordinal (Timestamp.year; a Timestamp lies in 1677..2262)
YearOf(ordinal) ==
    CHOOSE y \in 1677..2262 : ToOrdinal(y, 1, 1) <= ordinal /\ ordinal < ToOrdinal(y + 1, 1, 1)

\* datetime._isoweek1monday: the ordinal of the Monday that starts ISO week 1
IsoWeek1Monday(year) ==
    LET firstday == ToOrdinal(year, 1, 1)
        firstweekday == (firstday + 6) % 7
    IN  IF firstweekday > 3 THEN firstday - firstweekday + 7 ELSE firstday - firstweekday

\* dt.isocalendar()[1]
IsoCalendarWeek(ordinal) ==
    LET year == YearOf(ordinal)
        week == (ordinal - IsoWeek1Monday(year)) \div 7
    IN  IF ordinal < IsoWeek1Monday(year)
        THEN (ordinal - IsoWeek1Monday(year - 1)) \div 7 + 1
        ELSE IF week >= 52 /\ ordinal >= IsoWeek1Monday(year + 1) THEN 1
        ELSE week + 1

\* get_week_number: (dt.isocalendar()[1], dt.year), (None, None) for None
get_week_number(dt) ==
    IF dt = None THEN <<None, None>>
    ELSE <<IsoCalendarWeek(dt \div 1440), YearOf(dt \div 1440)>>

StartDt(row) == parse_datetime(row.start)

EndDt(row) == parse_datetime(row.end)

RowDate(row) == DateOf(StartDt(row))

(***************************************************************************)
(* Ordering helpers.  pandas iterates groups in sorted key order; the text *)
(* cells of the model are listed here in that (code point) order.          *)
(***************************************************************************)
TextOrder ==
    << "", "A. Jones", "Ad hoc Shift", "Cover", "Day Shift", "Day Support", "Elm Lodge",
       "Fixed", "Floating Shift", "Foo", "Hourly", "J. Smith", "L - Day Shift",
       "L - Shift", "Long Day", "NIGHT SHIFT", "Oak House", "Sleep In",
       "Sleep In Shift", "Training", "Unknown", "Zero", NaN >>

TextPos(s) == CHOOSE i \in DOMAIN TextOrder : TextOrder[i] = s

PairLE(a, b) == a[1] < b[1] \/ (a[1] = b[1] /\ a[2] <= b[2])

\* the elements of S in ascending order of their key, a pair of integers
RECURSIVE SeqOfOrdered(_, _)
SeqOfOrdered(S, key) ==
    IF S = {} THEN <<>>
    ELSE LET m == CHOOSE x \in S : \A y \in S : PairLE(key[x], key[y])
         IN  <<m>> \o SeqOfOrdered(S \ {m}, key)

Range(seq) == {seq[i] : i \in DOMAIN seq}

RECURSIVE Concat(_)
Concat(seqs) == IF seqs = <<>> THEN <<>> ELSE Head(seqs) \o Concat(Tail(seqs))

RECURSIVE SumOver(_, _)
SumOver(S, f) ==
    IF S = {} THEN 0 ELSE LET x == CHOOSE x \in S : TRUE IN f[x] + SumOver(S \ {x}, f)

(***************************************************************************)
(* config.py                                                               *)
(***************************************************************************)
Limit(op, v) == [kind |-> "dict", operator |-> op, value |-> v]

ConfigShiftTypeLimits ==
    (<<"Day Shift", "Hourly">> :> Limit("<=", 15)) @@
    (<<"Floating Shift", "Hourly">> :> Limit("<", 6)) @@
    (<<"L - Day Shift", "Fixed">> :> Limit("<=", 15)) @@
    (<<"Sleep In Shift", "Fixed">> :> Limit("<=", 12)) @@
    (<<"Waking Night Shift", "Hourly">> :> Limit("<=", 12)) @@
    (<<"Care Call Shift", "Hourly">> :> Limit("<=", 14)) @@
    (<<"Day Support", "Zero">> :> Limit("<=", 15)) @@
    (<<"Floating Support", "Zero">> :> Limit("<=", 4)) @@
    (<<"Sleep In Support", "Zero">> :> Limit("<=", 12)) @@
    (<<"Waking Night Support", "Zero">> :> Limit("<=", 12)) @@
    (<<"Ad hoc Shift", "Fixed">> :> Limit(">=", 6)) @@
    (<<"Ad hoc Shift", "Hourly">> :> Limit("<", 6)) @@
    (<<"Driver Shift", "Hourly">> :> Limit("<=", 4)) @@
    (<<"On Call Shift", "Fixed">> :> Limit("<=", 12)) @@
    (<<"Shift Lead - Shift", "Fixed">> :> Limit("<=", 8)) @@
    (<<"Training", "Hourly">> :> Limit("<=", 8)) @@
    (<<"Shadow", "Hourly">> :> Limit("<=", 6)) @@
    (<<"Paid Sleep In ", "Fixed">> :> Limit("<=", 10))

\* EMPLOYEE_HOUR_LIMITS = {} as shipped: no employee is listed
ConfigEmployeeHourLimits == [emp \in {} |-> 0]

ConfigDefaultHourLimit == -1

\* a key written ("text") is the bare string, no tuple: no looked-up tuple equals it
PlainKey(text) == <<"<str>", text, "">>

\* the rates in pence
ConfigRateCardMap ==
    (PlainKey("Zero Hour Pay Rates (SL)") :> 1385) @@
    (<<"Level 1- Mnchetr/Ptrbrgh", "Hourly">> :> 1282) @@
    (<<"Level 2- Mnchetr/Ptrbrgh", "Hourly">> :> 1292) @@
    (<<"Level 3- Mnchetr/Ptrbrgh", "Hourly">> :> 1302) @@
    (<<"Level 1 - Central Beds, Beds, Bucks, Gloce", "Hourly">> :> 1293) @@
    (<<"Level 2 - Central Beds, Beds, Bucks, Gloce", "Hourly">> :> 1302) @@
    (<<"Level 3 - Central Beds, Beds, Bucks, Gloce", "Hourly">> :> 1312) @@
    (<<"Level 1 - Oxford,Herts,Kent and Cormwall", "Hourly">> :> 1309) @@
    (<<"Level 2 - Oxford,Herts,Kent and Cormwall", "Hourly">> :> 1319) @@
    (<<"Level 3 - Oxford, Herts, Kent, Cormwall", "Hourly">> :> 1329) @@
    (<<"Level 1 - Barnet", "Hourly">> :> 1339) @@
    (<<"Level 2 - Barnet", "Hourly">> :> 1349) @@
    (<<"Level 3 - Barnet", "Hourly">> :> 1359) @@
    (<<"Home Care", "Hourly">> :> 1635) @@
    (<<"Live In Shift per day", "Fixed">> :> 13700) @@
    (<<"Sleep In Shift", "Hourly">> :> 3000) @@
    (<<"Ad hoc shift", "Fixed">> :> 16100) @@
    (<<"Ad hoc shift", "Hourly">> :> 1342) @@
    (<<"Live In Shift per week for all staff", "Fixed">> :> 116900)

ALLOWED_COMBINATIONS ==
    { <<"Day Shift", "Long Day">>, <<"Floating Shift", "Cover">>,
      <<"L - Day Shift", "L - Shift">>, <<"Sleep In Shift", "Sleep In">>,
      <<"Waking Night Shift", "Waking Nights">>, <<"Care Call Shift", "1. AM Call">>,
      <<"Care Call Shift", "2. Lunch Call">>, <<"Care Call Shift", "3. Tea Call">>,
      <<"Care Call Shift", "4. PM Call">>, <<"Care Call Shift", "Community Care Call">>,
      <<"Day Support", "Day Support">>, <<"Floating Support", "Cover">>,
      <<"Sleep In Support", "Sleep In">>, <<"Waking Night Support", "Waking Nights">>,
      <<"Ad hoc Shift", "Duties">>, <<"Driver Shift", "Duties">>,
      <<"On Call Shift", "On Call">>, <<"Shift Lead - Shift", "Day Support">>,
      <<"Training", "Training">>, <<"Shadow", "Shadow">>, <<"Paid Sleep In", "Sleep In">> }

(***************************************************************************)
(* Row validator (analyze_workforce_data, first half).                     *)
(***************************************************************************)
critical_columns ==
    << "Actual Employee Name", "Actual Start Date And Time",
       "Actual End Date And Time", "Actual Service Type Description" >>

\* pd.isna(row.get(col)) or row.get(col) == ''
MissingCell(row, col) ==
    CASE col = "Actual Employee Name" -> IsBlank(row.emp)
      [] col = "Actual Start Date And Time" -> IsBlankRaw(row.start)
      [] col = "Actual End Date And Time" -> IsBlankRaw(row.end)
      [] col = "Actual Service Type Description" -> IsBlank(row.stype)

RECURSIVE MissingErrors(_, _)
MissingErrors(row, cols) ==
    IF cols = <<>> THEN <<>>
    ELSE (IF MissingCell(row, Head(cols)) THEN <<"Missing " \o Head(cols)>> ELSE <<>>)
             \o MissingErrors(row, Tail(cols))

\* RowErrors without the check that a non-empty end time parses
RowErrors_NoEndParse(row) ==
    MissingErrors(row, critical_columns)
    \o (IF ~IsBlankRaw(row.start) /\ parse_datetime(row.start) = None
        THEN <<"Invalid start date format">> ELSE <<>>)

\* the `errors` list one pass of the validation loop builds for a row
RowErrors(row) ==
    MissingErrors(row, critical_columns)
    \o (IF ~IsBlankRaw(row.start) /\ parse_datetime(row.start) = None
        THEN <<"Invalid start date format">> ELSE <<>>)
    \o (IF ~IsBlankRaw(row.end) /\ parse_datetime(row.end) = None
        THEN <<"Invalid end date format">> ELSE <<>>)

ErrorRow(row) ==
    [row_number |-> row.row_num, employee_name |-> row.emp, start_date |-> row.start,
     end_date |-> row.end, shift_type |-> row.stype, errors |-> RowErrors(row)]

\* row numbers counted on from the ones a former run left in the table
WithRowNums_CountedOn(table) ==
    [i \in DOMAIN table |-> [table[i] EXCEPT !.row_num = @ + i + 1]]

\* WithRowNums numbering the rows from 1
WithRowNums_FromOne(table) == [i \in DOMAIN table |-> [table[i] EXCEPT !.row_num = i]]

\* df['_row_num'] = range(2, len(df) + 2)
WithRowNums(table) == [i \in DOMAIN table |-> [table[i] EXCEPT !.row_num = i + 1]]

\* error_rows after the validation loop: one entry per row that has errors
ValidationErrors(rows) ==
    LET bad == SelectSeq(rows, LAMBDA row : RowErrors(row) # <<>>)
    IN  [k \in DOMAIN bad |-> ErrorRow(bad[k])]

\* valid_df: the copy of df with every row that has errors dropped
ValidRows(rows) == SelectSeq(rows, LAMBDA r : RowErrors(r) = <<>>)

(***************************************************************************)
(* Grouping: df.groupby(['Actual Employee Name', 'date']) visits the keys  *)
(* in sorted order, drops rows whose key holds a missing value, and keeps  *)
(* the rows of a group in table order.                                     *)
(***************************************************************************)
GroupKeys(rows) ==
    LET keys == {<<rows[i].emp, RowDate(rows[i])>> :
                     i \in {j \in DOMAIN rows : rows[j].emp # NaN /\ RowDate(rows[j]) # None}}
    IN  SeqOfOrdered(keys, [k \in keys |-> <<TextPos(k[1]), k[2]>>])

\* GroupRows by employee alone
GroupRows_ByEmployee(rows, key) ==
    SelectSeq(rows, LAMBDA r : r.emp = key[1])

GroupRows(rows, key) ==
    SelectSeq(rows, LAMBDA r : r.emp = key[1] /\ RowDate(r) = key[2])

(***************************************************************************)
(* Overlap detector (check_duplicate_allocations).                         *)
(***************************************************************************)
BUFFER_MINUTES == 15

ALLOWED_SAME_LOCATION_OVERLAPS ==
    { <<"Day Shift", "Floating Shift">>, <<"Floating Shift", "Day Shift">>,
      <<"L - Day Shift", "Floating Shift">>, <<"Floating Shift", "L - Day Shift">>,
      <<"Waking Night Shift", "Floating Shift">>, <<"Floating Shift", "Waking Night Shift">>,
      <<"L - Day Shift", "Sleep In Shift">>, <<"Floating Shift", "Floating Shift">>,
      <<"Day Shift", "Day Shift">>, <<"Shift Lead - Shift", "Floating Shift">>,
      <<"On Call Shift", "On Call Shift">>, <<"L - Day Shift", "L - Day Shift">> }

\* str.lower() on the service types of the model
LowerCase(s) ==
    CASE s = "Day Shift" -> "day shift"
      [] s = "L - Day Shift" -> "l - day shift"
      [] s = "Sleep In Shift" -> "sleep in shift"
      [] s = "Floating Shift" -> "floating shift"
      [] s = "Ad hoc Shift" -> "ad hoc shift"
      [] s = "NIGHT SHIFT" -> "night shift"
      [] s = "Day Support" -> "day support"
      [] s = "Training" -> "training"
      [] s = "Unknown" -> "unknown"
      [] OTHER -> s

\* str.contains('shift', case=False, na=False)
ContainsShift(s) ==
    s # NaN /\ LowerCase(s) \in {"day shift", "l - day shift", "sleep in shift",
                                 "floating shift", "ad hoc shift", "night shift"}

\* group.sort_values('start_dt').reset_index(drop=True): ascending start time;
\* the default sort is not stable, so rows of equal start time come in the
\* order this build's sort leaves them in (tieRank, by position in the group).
SortByStart(group) ==
    LET idx == SeqOfOrdered(DOMAIN group,
                            [i \in DOMAIN group |-> <<StartDt(group[i]), tieRank[i]>>])
    IN  [k \in DOMAIN group |-> group[idx[k]]]

Max(a, b) == IF a >= b THEN a ELSE b

Min(a, b) == IF a <= b THEN a ELSE b

OverlapMinutes(r1, r2) == Min(EndDt(r1), EndDt(r2)) - Max(StartDt(r1), StartDt(r2))

\* FlagsPair flagging an overlap of exactly BUFFER_MINUTES too
FlagsPair_AtBuffer(r1, r2) ==
    /\ StartDt(r1) # None /\ EndDt(r1) # None /\ StartDt(r2) # None /\ EndDt(r2) # None
    /\ StartDt(r1) < EndDt(r2) /\ StartDt(r2) < EndDt(r1)
    /\ OverlapMinutes(r1, r2) >= BUFFER_MINUTES
    /\ ~(PyEq(r1.loc, r2.loc) /\ <<r1.stype, r2.stype>> \in ALLOWED_SAME_LOCATION_OVERLAPS)

\* FlagsPair suppressing an allowed combination at any two locations
FlagsPair_AnyLocation(r1, r2) ==
    /\ StartDt(r1) # None /\ EndDt(r1) # None /\ StartDt(r2) # None /\ EndDt(r2) # None
    /\ StartDt(r1) < EndDt(r2) /\ StartDt(r2) < EndDt(r1)
    /\ OverlapMinutes(r1, r2) > BUFFER_MINUTES
    /\ <<r1.stype, r2.stype>> \notin ALLOWED_SAME_LOCATION_OVERLAPS

\* the body of the pair loop: TRUE when (i, j) is appended to flagged_pairs
FlagsPair(r1, r2) ==
    /\ StartDt(r1) # None /\ EndDt(r1) # None /\ StartDt(r2) # None /\ EndDt(r2) # None
    /\ StartDt(r1) < EndDt(r2) /\ StartDt(r2) < EndDt(r1)
    /\ OverlapMinutes(r1, r2) > BUFFER_MINUTES
    /\ ~(PyEq(r1.loc, r2.loc) /\ <<r1.stype, r2.stype>> \in ALLOWED_SAME_LOCATION_OVERLAPS)

ShiftDetail(r) ==
    [shift |-> r.stype, loc |-> r.loc, start_time |-> StartDt(r) % 1440, end_time |-> EndDt(r) % 1440]

DuplicateIssue(emp, r1, r2) ==
    [issue_type |-> "Duplicate Allocation",
     employee_name |-> emp,
     date |-> DateOf(StartDt(r1)),
     shift_type |-> <<ShiftDetail(r1), ShiftDetail(r2)>>,
     overlap_minutes |-> OverlapMinutes(r1, r2),
     details |-> <<"Time overlap">>
                   \o (IF Truthy(r1.loc) /\ Truthy(r2.loc) /\ PyNe(r1.loc, r2.loc)
                       THEN <<"different locations">> ELSE <<>>)
                   \o (IF Truthy(r1.stype) /\ Truthy(r2.stype) /\ PyNe(r1.stype, r2.stype)
                       THEN <<"different shift types">> ELSE <<>>),
     row_numbers |-> <<r1.row_num, r2.row_num>>]

\* DuplicateGroupIssues comparing each row with the next one only
DuplicateGroupIssues_AdjacentOnly(emp, group) ==
    IF Len(group) < 2 THEN <<>>
    ELSE LET rows == SortByStart(group)
             flagged == {p \in (DOMAIN rows) \X (DOMAIN rows) :
                             p[2] = p[1] + 1 /\ FlagsPair(rows[p[1]], rows[p[2]])}
             flagged_pairs == SeqOfOrdered(flagged, [p \in flagged |-> p])
         IN  [k \in DOMAIN flagged_pairs |->
                 DuplicateIssue(emp, rows[flagged_pairs[k][1]], rows[flagged_pairs[k][2]])]

\* one (employee, date) group: the issues of its flagged pairs, in (i, j) order
DuplicateGroupIssues(emp, group) ==
    IF Len(group) < 2 THEN <<>>
    ELSE LET rows == SortByStart(group)
             flagged == {p \in (DOMAIN rows) \X (DOMAIN rows) :
                             p[1] < p[2] /\ FlagsPair(rows[p[1]], rows[p[2]])}
             flagged_pairs == SeqOfOrdered(flagged, [p \in flagged |-> p])
         IN  [k \in DOMAIN flagged_pairs |->
                 DuplicateIssue(emp, rows[flagged_pairs[k][1]], rows[flagged_pairs[k][2]])]

check_duplicate_allocations(table) ==
    LET shifts == SelectSeq(table, LAMBDA r : ContainsShift(r.stype))
        keys == GroupKeys(shifts)
    IN  Concat([k \in DOMAIN keys |-> DuplicateGroupIssues(keys[k][1], GroupRows(shifts, keys[k]))])

(***************************************************************************)
(* Quota checker (check_over_allocations).                                 *)
(***************************************************************************)
\* ViolationMsg with "<" firing only above the limit
ViolationMsg_LessThanAsAtMost(operator, total, limit_value) ==
    CASE operator = "<=" /\ total > limit_value * 60 -> "exceeds maximum"
      [] operator = ">=" /\ total < limit_value * 60 -> "below minimum"
      [] operator = "<" /\ total > limit_value * 60 -> "must be less than"
      [] operator = ">" /\ total <= limit_value * 60 -> "must be greater than"
      [] operator = "==" /\ total # limit_value * 60 -> "must be exactly"
      [] OTHER -> ""

\* the if/elif chain over `operator`: the violation message, "" when none;
\* total is in minutes, limit_value in hours
ViolationMsg(operator, total, limit_value) ==
    CASE operator = "<=" /\ total > limit_value * 60 -> "exceeds maximum"
      [] operator = ">=" /\ total < limit_value * 60 -> "below minimum"
      [] operator = "<" /\ total >= limit_value * 60 -> "must be less than"
      [] operator = ">" /\ total <= limit_value * 60 -> "must be greater than"
      [] operator = "==" /\ total # limit_value * 60 -> "must be exactly"
      [] OTHER -> ""

\* isinstance(limit_config, dict): a bare number is a "<=" limit
LimitOperator(limit_config) ==
    IF limit_config.kind = "dict" THEN limit_config.operator ELSE "<="

ShiftRateCombo(r) == <<r.stype, r.rate>>

\* ComboIssues listing the rows of the whole (employee, date) group
ComboIssues_WholeGroup(emp, date, group, combo) ==
    LET combo_group == SelectSeq(group, LAMBDA r : ShiftRateCombo(r) = combo)
        members == Range(combo_group)
        total_combo_hours ==
            SumOver(members, [r \in members |-> calculate_hours(StartDt(r), EndDt(r))])
    IN  IF combo \notin DOMAIN SHIFT_TYPE_LIMITS THEN <<>>
        ELSE LET limit_config == SHIFT_TYPE_LIMITS[combo]
                 violation_msg ==
                     ViolationMsg(LimitOperator(limit_config), total_combo_hours,
                                  limit_config.value)
             IN  IF violation_msg = "" THEN <<>>
                 ELSE << [issue_type |-> "Shift Type Hour Over-allocation",
                          employee_name |-> emp,
                          date |-> date,
                          actual_hours |-> total_combo_hours,
                          limit_hours |-> limit_config.value,
                          shift_type |-> combo,
                          details |-> violation_msg,
                          row_numbers |-> [k \in DOMAIN group |-> group[k].row_num]] >>

\* one (shift type, rate type) combination of one (employee, date) group
ComboIssues(emp, date, group, combo) ==
    LET combo_group == SelectSeq(group, LAMBDA r : ShiftRateCombo(r) = combo)
        members == Range(combo_group)
        total_combo_hours ==
            SumOver(members, [r \in members |-> calculate_hours(StartDt(r), EndDt(r))])
    IN  IF combo \notin DOMAIN SHIFT_TYPE_LIMITS THEN <<>>
        ELSE LET limit_config == SHIFT_TYPE_LIMITS[combo]
                 violation_msg ==
                     ViolationMsg(LimitOperator(limit_config), total_combo_hours,
                                  limit_config.value)
             IN  IF violation_msg = "" THEN <<>>
                 ELSE << [issue_type |-> "Shift Type Hour Over-allocation",
                          employee_name |-> emp,
                          date |-> date,
                          actual_hours |-> total_combo_hours,
                          limit_hours |-> limit_config.value,
                          shift_type |-> combo,
                          details |-> violation_msg,
                          row_numbers |-> [k \in DOMAIN combo_group |-> combo_group[k].row_num]] >>

OverAllocGroupIssues(emp, date, group) ==
    LET present == {ShiftRateCombo(group[i]) : i \in DOMAIN group}
        combos == SeqOfOrdered(present, [c \in present |-> <<TextPos(c[1]), TextPos(c[2])>>])
    IN  Concat([k \in DOMAIN combos |-> ComboIssues(emp, date, group, combos[k])])

check_over_allocations(table) ==
    LET keys == GroupKeys(table)
    IN  Concat([k \in DOMAIN keys |->
                   OverAllocGroupIssues(keys[k][1], keys[k][2], GroupRows(table, keys[k]))])

(***************************************************************************)
(* Whitelist checker (check_unallowed_combinations).                       *)
(***************************************************************************)
UnallowedIssue(row) ==
    [issue_type |-> "Unallowed Combination",
     employee_name |-> row.emp,
     date |-> RowDate(row),
     shift_type |-> row.stype,
     details |-> <<row.stype, row.req>>,
     row_numbers |-> <<row.row_num>>]

\* check_unallowed_combinations without the skip of an empty requirement type
check_unallowed_combinations_NoSkip(table) ==
    LET flagged == SelectSeq(table, LAMBDA row :
                       /\ ~IsBlank(row.stype)
                       /\ <<row.stype, row.req>> \notin ALLOWED_COMBINATIONS)
    IN  [k \in DOMAIN flagged |-> UnallowedIssue(flagged[k])]

\* the loop over df.iterrows(): one issue per row that is not skipped and
\* whose pair is not in the whitelist
check_unallowed_combinations(table) ==
    LET flagged == SelectSeq(table, LAMBDA row :
                       /\ ~IsBlank(row.stype) /\ ~IsBlank(row.req)
                       /\ <<row.stype, row.req>> \notin ALLOWED_COMBINATIONS)
    IN  [k \in DOMAIN flagged |-> UnallowedIssue(flagged[k])]

(***************************************************************************)
(* Rate checker (check_rate_mismatches).  Rates are in pence.  A cell of   *)
(* 'Actual Pay Rate' is None (the column is absent), NaN, a number, or     *)
(* text that float() rejects.                                              *)
(***************************************************************************)
PayNone == [kind |-> "none", pence |-> 0]

PayNaN == [kind |-> "nan", pence |-> 0]

PayText == [kind |-> "text", pence |-> 0]

PayNumber(p) == [kind |-> "number", pence |-> p]

\* str(cell).strip() on the texts of the model; str(NaN) is 'nan'
StrStrip(s) ==
    CASE s = NaN -> "nan"
      [] s = "Home Care " -> "Home Care"
      [] OTHER -> s

\* the lookup of expected_rate: key1 = (sheet_desc,), else key2 = (service_type, rate_type)
ExpectedRate(row) ==
    LET key1 == <<StrStrip(row.sheet)>>
        key2 == <<StrStrip(row.stype), StrStrip(row.rate)>>
    IN  IF key1 \in DOMAIN RATE_CARD_MAP THEN RATE_CARD_MAP[key1]
        ELSE IF key2 \in DOMAIN RATE_CARD_MAP THEN RATE_CARD_MAP[key2]
        ELSE None

\* the pairs <<actual, expected>> one penny apart for which the doubles give
\* abs(actual - expected) > 0.01: 13.13 - 13.12, 13.30 - 13.29, 16.35 - 16.34,
\* 30.00 - 29.99 and 30.01 - 30.00 all come out above the double 0.01
OnePennyAboveTolerance ==
    {<<1313, 1312>>, <<1330, 1329>>, <<1634, 1635>>, <<2999, 3000>>, <<3001, 3000>>}

\* abs(actual_rate_float - expected_rate) > 0.01 in double arithmetic, on
\* amounts of whole pence: false at equal amounts, true from two pence on
ExceedsTolerance(actual, expected) ==
    \/ actual - expected >= 2
    \/ expected - actual >= 2
    \/ <<actual, expected>> \in OnePennyAboveTolerance

\* the row gets an issue: a rate is found, the cell is not None, float()
\* accepts it (a NaN cell gives nan, and no comparison with nan is true) and
\* the difference is above the tolerance
RateMismatch(row) ==
    /\ ExpectedRate(row) # None
    /\ row.pay.kind = "number"
    /\ ExceedsTolerance(row.pay.pence, ExpectedRate(row))

RateIssue(row) ==
    [issue_type |-> "Rate Mismatch",
     employee_name |-> row.emp,
     date |-> RowDate(row),
     week |-> None,
     actual_hours |-> None,
     limit_hours |-> ExpectedRate(row),
     shift_type |-> StrStrip(row.stype),
     details |-> <<ExpectedRate(row), row.pay.pence>>,
     row_numbers |-> <<row.row_num>>]

check_rate_mismatches(table) ==
    LET flagged == SelectSeq(table, LAMBDA row : RateMismatch(row))
    IN  [k \in DOMAIN flagged |-> RateIssue(flagged[k])]

(***************************************************************************)
(* Orchestrator (analyze_workforce_data): what it returns for a table.     *)
(***************************************************************************)
NoResults == [total_issues |-> None]

\* 'N/A', the row number of an error row that stands for no row
N_A == -2

\* .str on the service type column raises AttributeError ("Can only use .str
\* accessor with string values") when the column holds no string at all:
\* read_csv types a column of empty cells only as float64, and the copies
\* and slices of a frame keep its column types
StrAccessorRaises(frame) ==
    /\ frame # <<>>
    /\ \A i \in DOMAIN frame : frame[i].stype = NaN

\* df.apply(..., axis=1) on a frame without rows returns a frame, not a
\* column, and df['hours'] = <frame> raises ValueError
ApplyOnEmptyRaises(table) == table = <<>>

\* the error row an except branch appends for a checker
AnalysisError(check, message) ==
    [row_number |-> N_A, employee_name |-> "ANALYSIS ERROR", start_date |-> "N/A",
     end_date |-> "N/A", shift_type |-> check, errors |-> <<message>>]

DuplicateCheckError ==
    AnalysisError("Duplicate Check",
                  "Error in duplicate check: Can only use .str accessor with string values!")

OverAllocationCheckError ==
    AnalysisError("Over-allocation Check",
                  "Error in over-allocation check: Cannot set a DataFrame with multiple columns to the single column hours")

\* CheckersResult counting the error rows before the checkers ran
CheckersResult_EarlyErrorCount(frame, valid, errors) ==
    LET dups == IF StrAccessorRaises(frame) THEN <<>> ELSE check_duplicate_allocations(valid)
        overs == IF ApplyOnEmptyRaises(valid) THEN <<>> ELSE check_over_allocations(valid)
        unall == check_unallowed_combinations(valid)
        all_errors == errors
                        \o (IF StrAccessorRaises(frame) THEN <<DuplicateCheckError>> ELSE <<>>)
                        \o (IF ApplyOnEmptyRaises(valid) THEN <<OverAllocationCheckError>> ELSE <<>>)
    IN  [duplicate_allocations |-> dups,
         over_allocations |-> overs,
         unallowed_combinations |-> unall,
         error_rows |-> all_errors,
         total_issues |-> Len(dups) + Len(overs) + Len(unall),
         total_errors |-> Len(errors),
         total_valid_rows |-> Len(valid),
         total_rows |-> Len(frame)]

\* CheckersResult with except branches that record nothing
CheckersResult_SilentExcept(frame, valid, errors) ==
    LET dups == IF StrAccessorRaises(frame) THEN <<>> ELSE check_duplicate_allocations(valid)
        overs == IF ApplyOnEmptyRaises(valid) THEN <<>> ELSE check_over_allocations(valid)
        unall == check_unallowed_combinations(valid)
    IN  [duplicate_allocations |-> dups,
         over_allocations |-> overs,
         unallowed_combinations |-> unall,
         error_rows |-> errors,
         total_issues |-> Len(dups) + Len(overs) + Len(unall),
         total_errors |-> Len(errors),
         total_valid_rows |-> Len(valid),
         total_rows |-> Len(frame)]

\* CheckersResult with the checkers run on the whole frame instead of valid_df
CheckersResult_OnAllRows(frame, valid, errors) ==
    LET dups == IF StrAccessorRaises(frame) THEN <<>> ELSE check_duplicate_allocations(frame)
        overs == IF ApplyOnEmptyRaises(frame) THEN <<>> ELSE check_over_allocations(frame)
        unall == check_unallowed_combinations(frame)
        all_errors == errors
                        \o (IF StrAccessorRaises(frame) THEN <<DuplicateCheckError>> ELSE <<>>)
                        \o (IF ApplyOnEmptyRaises(frame) THEN <<OverAllocationCheckError>> ELSE <<>>)
    IN  [duplicate_allocations |-> dups,
         over_allocations |-> overs,
         unallowed_combinations |-> unall,
         error_rows |-> all_errors,
         total_issues |-> Len(dups) + Len(overs) + Len(unall),
         total_errors |-> Len(all_errors),
         total_valid_rows |-> Len(valid),
         total_rows |-> Len(frame)]

\* the second half of analyze_workforce_data: the three checkers, each in its
\* try/except and on its own copy of valid_df, and the summary counts
CheckersResult(frame, valid, errors) ==
    LET dups == IF StrAccessorRaises(frame) THEN <<>> ELSE check_duplicate_allocations(valid)
        overs == IF ApplyOnEmptyRaises(valid) THEN <<>> ELSE check_over_allocations(valid)
        unall == check_unallowed_combinations(valid)
        all_errors == errors
                        \o (IF StrAccessorRaises(frame) THEN <<DuplicateCheckError>> ELSE <<>>)
                        \o (IF ApplyOnEmptyRaises(valid) THEN <<OverAllocationCheckError>> ELSE <<>>)
    IN  [duplicate_allocations |-> dups,
         over_allocations |-> overs,
         unallowed_combinations |-> unall,
         error_rows |-> all_errors,
         total_issues |-> Len(dups) + Len(overs) + Len(unall),
         total_errors |-> Len(all_errors),
         total_valid_rows |-> Len(valid),
         total_rows |-> Len(frame)]

\* analyze_workforce_data(table), start to end
AnalysisOf(table) ==
    CheckersResult(table, ValidRows(WithRowNums(table)), ValidationErrors(WithRowNums(table)))

\* analyze_workforce_data(df), up to the end of the validation loop: the
\* caller's table gains its _row_num column
ValidateRows ==
    /\ ~is_processing
    /\ pc = "idle"
    /\ df' = WithRowNums(df)
    /\ valid_df' = ValidRows(WithRowNums(df))
    /\ error_rows' = ValidationErrors(WithRowNums(df))
    /\ pc' = "validated"
    /\ UNCHANGED <<SHIFT_TYPE_LIMITS, EMPLOYEE_HOUR_LIMITS, DEFAULT_HOUR_LIMIT,
                   RATE_CARD_MAP, rate_issues, tieRank, week_of, results, is_processing, chunk_start,
                   unallowed, duplicates, over_allocs, session_results>>

\* analyze_workforce_data(df), from the first checker to the return
RunCheckers ==
    /\ pc = "validated"
    /\ results' = CheckersResult(df, valid_df, error_rows)
    /\ pc' = "idle"
    /\ UNCHANGED <<df, SHIFT_TYPE_LIMITS, EMPLOYEE_HOUR_LIMITS, DEFAULT_HOUR_LIMIT,
                   RATE_CARD_MAP, rate_issues, tieRank, week_of, valid_df, error_rows, is_processing,
                   chunk_start, unallowed, duplicates, over_allocs, session_results>>

\* check_rate_mismatches(valid_df): no function of the repository calls it;
\* this is the call on the validated frame
CheckRateMismatches ==
    /\ pc = "validated"
    /\ rate_issues' = check_rate_mismatches(valid_df)
    /\ pc' = "idle"
    /\ UNCHANGED <<df, SHIFT_TYPE_LIMITS, EMPLOYEE_HOUR_LIMITS, DEFAULT_HOUR_LIMIT,
                   RATE_CARD_MAP, tieRank, week_of, valid_df, error_rows, results, is_processing,
                   chunk_start, unallowed, duplicates, over_allocs, session_results>>

\* get_week_number(parse_datetime(cell)) on the start cell of a row: no
\* function of the repository calls it; this is a call on an uploaded cell
GetWeekNumber ==
    /\ \E i \in DOMAIN df :
           week_of' = [dt |-> StartDt(df[i]), returned |-> get_week_number(StartDt(df[i]))]
    /\ UNCHANGED <<df, SHIFT_TYPE_LIMITS, EMPLOYEE_HOUR_LIMITS, DEFAULT_HOUR_LIMIT,
                   RATE_CARD_MAP, rate_issues, tieRank, pc, valid_df, error_rows, results,
                   is_processing, chunk_start, unallowed, duplicates, over_allocs,
                   session_results>>

(***************************************************************************)
(* The "Run Analysis" button of app.py: the chunk loop.                    *)
(***************************************************************************)
chunk_size == 1000

SubSeqOrEmpty(seq, a, b) == IF a > b THEN <<>> ELSE SubSeq(seq, a, b)

\* the click: is_processing is set and the three issue lists start empty
RunAnalysisClick ==
    /\ ~is_processing
    /\ pc = "idle"
    /\ is_processing' = TRUE
    /\ chunk_start' = 0
    /\ unallowed' = <<>>
    /\ duplicates' = <<>>
    /\ over_allocs' = <<>>
    /\ UNCHANGED <<df, SHIFT_TYPE_LIMITS, EMPLOYEE_HOUR_LIMITS, DEFAULT_HOUR_LIMIT,
                   RATE_CARD_MAP, rate_issues, tieRank, week_of, pc, valid_df, error_rows, results, session_results>>

\* WithoutRowNums that removes nothing
WithoutRowNums_KeepAll(rows, nums) == rows

\* chunk[~chunk['_row_num'].isin(invalid_row_nums)]
WithoutRowNums(rows, nums) == SelectSeq(rows, LAMBDA r : r.row_num \notin nums)

\* one pass of `for start in range(0, total_rows, chunk_size)`; a checker
\* that raises ends the handler in its except branch, nothing stored
RunAnalysisChunk ==
    /\ is_processing
    /\ chunk_start < Len(df)
    /\ LET end == Min(chunk_start + chunk_size, Len(df))
           chunk == SubSeqOrEmpty(WithRowNums(df), chunk_start + 1, end)
           chunk_unallowed == check_unallowed_combinations(chunk)
           invalid_row_nums == {chunk_unallowed[k].row_numbers[1] : k \in DOMAIN chunk_unallowed}
           valid_chunk == WithoutRowNums(chunk, invalid_row_nums)
       IN  IF StrAccessorRaises(df) \/ ApplyOnEmptyRaises(valid_chunk)
           THEN /\ is_processing' = FALSE
                /\ chunk_start' = 0
                /\ unallowed' = <<>>
                /\ duplicates' = <<>>
                /\ over_allocs' = <<>>
           ELSE /\ unallowed' = unallowed \o chunk_unallowed
                /\ duplicates' = duplicates \o check_duplicate_allocations(valid_chunk)
                /\ over_allocs' = over_allocs \o check_over_allocations(valid_chunk)
                /\ chunk_start' = end
                /\ UNCHANGED is_processing
    /\ UNCHANGED <<df, SHIFT_TYPE_LIMITS, EMPLOYEE_HOUR_LIMITS, DEFAULT_HOUR_LIMIT,
                   RATE_CARD_MAP, rate_issues, tieRank, week_of, pc, valid_df, error_rows, results,
                   session_results>>

\* after the loop: the results are stored in the session
RunAnalysisFinish ==
    /\ is_processing
    /\ chunk_start >= Len(df)
    /\ session_results' =
           [duplicate_allocations |-> duplicates,
            over_allocations |-> over_allocs,
            unallowed_combinations |-> unallowed,
            total_issues |-> Len(duplicates) + Len(over_allocs) + Len(unallowed)]
    /\ is_processing' = FALSE
    /\ unallowed' = <<>>
    /\ duplicates' = <<>>
    /\ over_allocs' = <<>>
    /\ UNCHANGED <<df, SHIFT_TYPE_LIMITS, EMPLOYEE_HOUR_LIMITS, DEFAULT_HOUR_LIMIT,
                   RATE_CARD_MAP, rate_issues, tieRank, week_of, pc, valid_df, error_rows, results, chunk_start>>

Next ==
    \/ ValidateRows
    \/ RunCheckers
    \/ RunAnalysisClick
    \/ RunAnalysisChunk
    \/ RunAnalysisFinish

(***************************************************************************)
(* Input tables.                                                           *)
(***************************************************************************)
Row(emp, start, end, loc, stype, rate, req) ==
    [emp |-> emp, start |-> start, end |-> end, loc |-> loc, stype |-> stype,
     rate |-> rate, req |-> req, row_num |-> 0]

\* "dd/01/2024 hh:mi"; 15/01/2024 is a Monday
T(d, hh, mi) == Raw(d, 1, 2024, hh, mi)

RECURSIVE SeqsUpTo(_, _)
SeqsUpTo(S, n) ==
    IF n = 0 THEN {<<>>}
    ELSE LET shorter == SeqsUpTo(S, n - 1)
         IN  shorter \cup {Append(t, x) : t \in {u \in shorter : Len(u) = n - 1}, x \in S}

\* the sort keeps rows of equal start time in table order, or reverses them
TieRanks(n) == {[i \in 1..n |-> i], [i \in 1..n |-> n + 1 - i]}

MaxRows == 2

ValidationRows ==
    { Row("J. Smith", T(15, 9, 0), T(15, 17, 0), "Oak House", "Day Shift", "Hourly", "Long Day"),
      Row("J. Smith", T(15, 16, 0), T(16, 9, 0), "Elm Lodge", "Day Shift", "Hourly", "Long Day"),
      Row("J. Smith", Raw(1, 15, 2024, 9, 0), T(15, 17, 0), "Oak House", "Day Shift", "Hourly", "Foo"),
      Row(NaN, T(15, 9, 0), T(16, 9, 0), "Elm Lodge", "Day Shift", "Hourly", "Foo"),
      Row("J. Smith", RawNaN, T(16, 9, 0), "Elm Lodge", "Day Shift", "Hourly", "Foo"),
      Row("J. Smith", RawEmpty, T(15, 17, 0), "Oak House", "Day Shift", "Hourly", "Long Day"),
      Row("J. Smith", RawText, T(15, 17, 0), "Oak House", "Day Shift", "Hourly", "Long Day"),
      Row("J. Smith", Raw(31, 2, 2024, 9, 0), T(15, 17, 0), "Oak House", "Day Shift", "Hourly", "Long Day"),
      Row("J. Smith", T(15, 9, 0), RawNaN, "Elm Lodge", "Day Shift", "Hourly", "Long Day"),
      Row("J. Smith", T(15, 9, 0), RawText, "Elm Lodge", "Day Shift", "Hourly", "Foo"),
      Row("J. Smith", T(15, 9, 0), T(16, 9, 0), "Elm Lodge", NaN, "Hourly", "Long Day"),
      Row("J. Smith", T(15, 9, 0), T(15, 17, 0), "Oak House", "", "Hourly", "Long Day"),
      Row("", RawText, RawNaN, "Oak House", "Day Shift", "Hourly", "Foo"),
      Row("A. Jones", T(15, 9, 0), T(15, 17, 0), "Oak House", "Day Shift", "Hourly", NaN),
      Row("A. Jones", T(16, 9, 0), T(16, 17, 0), "Oak House", "Day Shift", "Hourly", ""),
      Row("A. Jones", T(16, 9, 0), T(16, 17, 0), "Elm Lodge", "Training", "Hourly", "Training"),
      Row("A. Jones", T(15, 9, 0), T(15, 17, 0), "Elm Lodge", "Day Shift", "Hourly", "Sleep In") }

NotRun == <<[issue_type |-> "<not run>"]>>

NotCalled == [dt |-> None, returned |-> <<>>]

\* the state before any run, over the uploaded tables and the edits of
\* config.py that are considered
InitConfigured(tables, limits, hourLimits, defaultLimits, rateCards) ==
    /\ df \in tables
    /\ SHIFT_TYPE_LIMITS \in limits
    /\ EMPLOYEE_HOUR_LIMITS \in hourLimits
    /\ DEFAULT_HOUR_LIMIT \in defaultLimits
    /\ RATE_CARD_MAP \in rateCards
    /\ rate_issues = NotRun
    /\ week_of = NotCalled
    /\ tieRank \in TieRanks(Max(Len(df), 1))
    /\ pc = "idle"
    /\ valid_df = <<>>
    /\ error_rows = <<>>
    /\ results = NoResults
    /\ is_processing = FALSE
    /\ chunk_start = 0
    /\ unallowed = <<>>
    /\ duplicates = <<>>
    /\ over_allocs = <<>>
    /\ session_results = NoResults

InitWith(tables, limits) ==
    InitConfigured(tables, limits, {ConfigEmployeeHourLimits}, {ConfigDefaultHourLimit},
                   {ConfigRateCardMap})

\* an uploaded file of any mix of sound and defective rows, config.py as shipped
Init == InitWith(SeqsUpTo(ValidationRows, MaxRows), {ConfigShiftTypeLimits})

Spec == Init /\ [][Next]_vars

(***************************************************************************)
(* Tables of well-formed shift rows of one day or two, for the overlap     *)
(* detector: every pair over a product of intervals, locations and service *)
(* types, and longer tables over a few rows.                               *)
(***************************************************************************)
Shift(emp, interval, loc, stype) ==
    Row(emp, interval[1], interval[2], loc, stype, "Hourly", "Long Day")

Intervals ==
    { <<T(15, 9, 0), T(15, 17, 0)>>,      \* 09:00-17:00
      <<T(15, 16, 45), T(15, 20, 0)>>,    \* overlaps it by 15 minutes
      <<T(15, 16, 44), T(15, 20, 0)>>,    \* overlaps it by 16 minutes
      <<T(15, 17, 0), T(15, 20, 0)>>,     \* starts as it ends
      <<T(15, 23, 0), T(16, 0, 16)>>,     \* runs past midnight
      <<T(16, 0, 0), T(16, 8, 0)>> }      \* starts the next day, 16 minutes before that one ends

PairRows ==
    { Shift("J. Smith", iv, loc, stype) :
          iv \in Intervals, loc \in {"Oak House", "Elm Lodge"},
          stype \in {"Day Shift", "L - Day Shift", "Sleep In Shift", "Day Support"} }

PairTables == {<<a, b>> : a \in PairRows, b \in PairRows}

LongerRows ==
    { Shift("J. Smith", <<T(15, 9, 0), T(15, 17, 0)>>, "Oak House", "Day Shift"),
      Shift("J. Smith", <<T(15, 16, 45), T(15, 20, 0)>>, "Elm Lodge", "Day Shift"),
      Shift("J. Smith", <<T(15, 16, 44), T(15, 20, 0)>>, "Elm Lodge", "Day Shift"),
      Shift("J. Smith", <<T(15, 9, 0), T(15, 20, 0)>>, "Oak House", "Sleep In Shift"),
      Shift("J. Smith", <<T(15, 9, 0), T(15, 20, 0)>>, "Oak House", "L - Day Shift"),
      Shift("J. Smith", <<T(15, 9, 0), T(15, 17, 0)>>, "Oak House", "Day Support"),
      Shift("A. Jones", <<T(15, 9, 0), T(15, 17, 0)>>, "Elm Lodge", "NIGHT SHIFT") }

MaxShifts == 3

LongerTables == {t \in SeqsUpTo(LongerRows, MaxShifts) : Len(t) >= 3}

InitOverlap == InitWith(PairTables \cup LongerTables, {ConfigShiftTypeLimits})

SpecOverlap == InitOverlap /\ [][Next]_vars

(***************************************************************************)
(* Inputs of the quota checker: shifts of one and two hours whose daily    *)
(* totals per (service type, rate type) fall below, on and above a limit   *)
(* of two hours, under every operator the limit may carry.                 *)
(***************************************************************************)
\* a bare number as limit_config (the else branch of isinstance(limit_config, dict))
BareLimit(v) == [kind |-> "number", value |-> v]

QuotaShift(emp, d, len, stype, rate) ==
    Row(emp, T(d, 9, 0), T(d, 9 + len, 0), "Oak House", stype, rate, "Long Day")

QuotaRows ==
    {QuotaShift("J. Smith", d, len, "Day Shift", "Hourly") : d \in {15, 16}, len \in {1, 2}}
        \cup {QuotaShift("J. Smith", 15, len, "Floating Shift", "Hourly") : len \in {1, 2}}
        \cup {QuotaShift("J. Smith", 15, 1, "Day Shift", "Fixed"),
              QuotaShift("A. Jones", 15, 2, "Day Shift", "Hourly")}

MaxQuotaRows == 2

QuotaTables == {t \in SeqsUpTo(QuotaRows, MaxQuotaRows) : Len(t) >= 1}

\* the operator strings a limit may be configured with; "=" is none that
\* check_over_allocations compares against
QuotaOperators == {"<=", ">=", "<", ">", "==", "="}

QuotaLimits ==
    {(<<"Day Shift", "Hourly">> :> Limit(op, 2)) @@ (<<"Floating Shift", "Hourly">> :> BareLimit(2)) :
         op \in QuotaOperators}

InitQuota == InitWith(QuotaTables, QuotaLimits)

SpecQuota == InitQuota /\ [][Next]_vars

(***************************************************************************)
(* Files longer than one chunk: rows of "A. Jones" that no check objects   *)
(* to, then two or three shifts of "J. Smith" placed around the boundary   *)
(* between row 1000 and row 1001 of the table.                             *)
(***************************************************************************)
FillerRow ==
    Row("A. Jones", T(15, 9, 0), T(15, 10, 0), "Oak House", "Training", "Fixed", "Training")

BoundaryShift(hh, len, stype, rate, req) ==
    Row("J. Smith", T(15, hh, 0), T(15, hh + len, 0), "Elm Lodge", stype, rate, req)

BoundaryRows ==
    { BoundaryShift(9, 8, "Day Shift", "Hourly", "Long Day"),
      BoundaryShift(12, 8, "Day Shift", "Hourly", "Long Day"),
      BoundaryShift(9, 3, "Ad hoc Shift", "Fixed", "Duties"),
      BoundaryShift(12, 3, "Ad hoc Shift", "Fixed", "Duties") }

\* the number of rows before the shifts of "J. Smith"
FillerCounts == {chunk_size - 2, chunk_size - 1, chunk_size}

ChunkTables ==
    {[i \in 1..(n + 2) |-> IF i <= n THEN FillerRow ELSE IF i = n + 1 THEN a ELSE b] :
         n \in FillerCounts, a \in BoundaryRows, b \in BoundaryRows}

InitChunk == InitWith(ChunkTables, {ConfigShiftTypeLimits})

SpecChunk == InitChunk /\ [][Next]_vars

(***************************************************************************)
(* The quota rows under hour caps: none as shipped, a cap of two hours for *)
(* "J. Smith", a default cap of two hours.                                 *)
(***************************************************************************)
HourLimitConfigs == {ConfigEmployeeHourLimits, "J. Smith" :> 2}

DefaultHourLimits == {ConfigDefaultHourLimit, 2}

InitHours ==
    InitConfigured(QuotaTables, {ConfigShiftTypeLimits}, HourLimitConfigs, DefaultHourLimits,
                   {ConfigRateCardMap})

SpecHours == InitHours /\ [][Next]_vars

(***************************************************************************)
(* Quota rows among which some end before they start: a shift entered as   *)
(* 09:00 to 08:00 or to 07:00 of the same day.                             *)
(***************************************************************************)
BackwardRows ==
    {QuotaShift("J. Smith", 15, len, "Day Shift", "Hourly") : len \in {-2, -1, 1, 2}}
        \cup {QuotaShift("J. Smith", 15, -1, "Floating Shift", "Hourly"),
              QuotaShift("A. Jones", 15, 2, "Day Shift", "Hourly")}

BackwardTables == {t \in SeqsUpTo(BackwardRows, MaxQuotaRows) : Len(t) >= 1}

InitBackward == InitWith(BackwardTables, QuotaLimits)

SpecBackward == InitBackward /\ [][Next]_vars

(***************************************************************************)
(* Start cells around the turn of six years, for get_week_number: the last *)
(* eight days of December and the first ten of January, a missing cell and *)
(* text that is no date.                                                   *)
(***************************************************************************)
TurnOfYearCells ==
    {Raw(d, 12, y, 9, 0) : d \in 24..31, y \in {2020, 2021, 2024, 2025, 2026, 2027}}
        \cup {Raw(d, 1, y, 9, 0) : d \in 1..10, y \in {2020, 2021, 2024, 2025, 2026, 2027}}
        \cup {RawNaN, RawText}

WeekNumberTables ==
    {<<Row("J. Smith", cell, T(15, 17, 0), "Oak House", "Day Shift", "Hourly", "Long Day")>> :
         cell \in TurnOfYearCells}

InitWeekNumber == InitWith(WeekNumberTables, {ConfigShiftTypeLimits})

NextWeekNumber == GetWeekNumber

SpecWeekNumber == InitWeekNumber /\ [][NextWeekNumber]_vars

(***************************************************************************)
(* Rows with a rate sheet and a pay rate, for the rate checker: rates at,  *)
(* one penny off and two pence off the card's, service types the card has  *)
(* and has not, cells that are no number; the card as shipped and the card *)
(* with its first key written as the 1-tuple the lookup builds.            *)
(***************************************************************************)
RateRow(emp, stype, rate, sheet, pay) ==
    Row(emp, T(15, 9, 0), T(15, 17, 0), "Oak House", stype, rate, "Long Day")
        @@ [sheet |-> sheet, pay |-> pay]

RateRows ==
    {RateRow("J. Smith", "Home Care", "Hourly", NaN, PayNumber(p)) :
         p \in {1633, 1634, 1635, 1636, 1637}}
        \cup {RateRow("J. Smith", "Sleep In Shift", "Hourly", NaN, PayNumber(p)) :
                  p \in {2999, 3000, 3001}}
        \cup {RateRow("J. Smith", "Home Care", "Hourly", "Zero Hour Pay Rates (SL)", PayNumber(p)) :
                  p \in {1385, 1635}}
        \cup {RateRow("J. Smith", "Home Care", "Hourly", NaN, pay) : pay \in {PayNone, PayNaN, PayText}}
        \cup {RateRow("J. Smith", "Home Care ", "Hourly", NaN, PayNumber(1700)),
              RateRow("J. Smith", "Home Care", "Fixed", NaN, PayNumber(1700)),
              RateRow("J. Smith", "Day Shift", "Hourly", "Other", PayText),
              RateRow(NaN, "Home Care", "Hourly", NaN, PayNumber(1700))}

MaxRateRows == 2

RateTables == {t \in SeqsUpTo(RateRows, MaxRateRows) : Len(t) >= 1}

TupleKeyRateCardMap == (<<"Zero Hour Pay Rates (SL)">> :> 1385) @@ ConfigRateCardMap

InitRate ==
    InitConfigured(RateTables, {ConfigShiftTypeLimits}, {ConfigEmployeeHourLimits},
                   {ConfigDefaultHourLimit}, {ConfigRateCardMap, TupleKeyRateCardMap})

NextRate ==
    \/ ValidateRows
    \/ CheckRateMismatches

SpecRate == InitRate /\ [][NextRate]_vars

(***************************************************************************)
(* Sixteen "Day Shift"/"Hourly" records of one employee in the ISO week of *)
(* Monday 15/01/2024, spread over the first `days` days of the week.       *)
(***************************************************************************)
WeekTable(emp, days, minutes) ==
    [i \in 1..16 |->
        LET d == 15 + ((i - 1) % days)
            slot == (i - 1) \div days
        IN  Row(emp, T(d, slot, 0), T(d, slot + (minutes \div 60), minutes % 60),
                "Oak House", "Day Shift", "Hourly", "Long Day")]

WeekTables ==
    {WeekTable(emp, days, minutes) :
         emp \in {"J. Smith", "A. Jones"}, days \in {1, 2, 5, 7}, minutes \in {30, 60, 120}}

InitWeekly == InitWith(WeekTables, {ConfigShiftTypeLimits})

SpecWeekly == InitWeekly /\ [][Next]_vars

(***************************************************************************)
(* Properties.                                                             *)
(***************************************************************************)
RowNumsOf(issues) == UNION {Range(issues[k].row_numbers) : k \in DOMAIN issues}

\* the row numbers any issue of a result lists
IssueRowNums(res) ==
    RowNumsOf(res.duplicate_allocations) \cup RowNumsOf(res.over_allocations)
        \cup RowNumsOf(res.unallowed_combinations)

\* the row numbers the error-row list of a result names (none when it has no such list)
ErrorRowNums(res) ==
    IF "error_rows" \in DOMAIN res
    THEN {res.error_rows[k].row_number : k \in DOMAIN res.error_rows} \ {N_A}
    ELSE {}

\* a required field is missing or empty, or a non-empty start or end time does not parse
Defective(row) ==
    \/ row.emp \in {NaN, ""}
    \/ row.start.kind \in {"nan", "empty"}
    \/ row.end.kind \in {"nan", "empty"}
    \/ row.stype \in {NaN, ""}
    \/ to_datetime(row.start) = None
    \/ to_datetime(row.end) = None

\* every reason that applies to a row
ApplicableReasons(row) ==
    {"Missing Actual Employee Name" : x \in {1} \cap (IF row.emp \in {NaN, ""} THEN {1} ELSE {})}
    \cup {"Missing Actual Start Date And Time" : x \in {1} \cap (IF row.start.kind \in {"nan", "empty"} THEN {1} ELSE {})}
    \cup {"Missing Actual End Date And Time" : x \in {1} \cap (IF row.end.kind \in {"nan", "empty"} THEN {1} ELSE {})}
    \cup {"Missing Actual Service Type Description" : x \in {1} \cap (IF row.stype \in {NaN, ""} THEN {1} ELSE {})}
    \cup {"Invalid start date format" : x \in {1} \cap (IF row.start.kind \in {"text", "date"} /\ to_datetime(row.start) = None THEN {1} ELSE {})}
    \cup {"Invalid end date format" : x \in {1} \cap (IF row.end.kind \in {"text", "date"} /\ to_datetime(row.end) = None THEN {1} ELSE {})}

Validated == pc = "validated" \/ results # NoResults

\* C1: once the validation loop has run, a row of the input is in the error-row
\* list iff a required field is missing or empty or a non-empty start or end
\* time does not parse; every row is in exactly one of valid_df and the
\* error-row list, unchanged; and its one ErrorRow carries every applicable reason.
C1_RowValidatorPartition ==
    Validated =>
        /\ \A i \in DOMAIN df :
              LET entries == {k \in DOMAIN error_rows : error_rows[k].row_number = i + 1}
                  kept == {k \in DOMAIN valid_df : valid_df[k].row_num = i + 1}
              IN  /\ (entries # {}) <=> Defective(df[i])
                  /\ Cardinality(entries) + Cardinality(kept) = 1
                  /\ \A k \in entries : Range(error_rows[k].errors) = ApplicableReasons(df[i])
                  /\ \A k \in kept : valid_df[k] = df[i]
        /\ \A k \in DOMAIN error_rows : error_rows[k].row_number - 1 \in DOMAIN df
        /\ \A k \in DOMAIN valid_df : valid_df[k].row_num - 1 \in DOMAIN df
        /\ results # NoResults =>
              \A k \in DOMAIN error_rows : results.error_rows[k] = error_rows[k]

\* a run in which one row fails several checks and another row is kept
C1_Witness ==
    /\ pc = "validated"
    /\ \E k \in DOMAIN error_rows : Len(error_rows[k].errors) >= 3
    /\ valid_df # <<>>

\* C2: in the output of one run no issue of any category lists the row number
\* of a row of the error-row list; a row with no start time is listed by no
\* issue and is in the error rows with "Missing Actual Start Date And Time".
C2_QuarantineEffective ==
    results # NoResults =>
        /\ IssueRowNums(results) \cap ErrorRowNums(results) = {}
        /\ \A i \in DOMAIN df :
              IsBlankRaw(df[i].start) =>
                  /\ i + 1 \notin IssueRowNums(results)
                  /\ \E k \in DOMAIN results.error_rows :
                        /\ results.error_rows[k].row_number = i + 1
                        /\ "Missing Actual Start Date And Time"
                               \in Range(results.error_rows[k].errors)

\* a run that found issues although a row with no start time, and a pair the
\* whitelist rejects, was quarantined
C2_Witness ==
    /\ results # NoResults
    /\ results.total_issues > 0
    /\ \E i \in DOMAIN df :
          /\ IsBlankRaw(df[i].start)
          /\ <<df[i].stype, df[i].req>> \notin ALLOWED_COMBINATIONS

\* C3: in the result of either pipeline, every row with a missing required
\* field or an unparseable timestamp is named by the error-row list or by an issue.
C3_NoErrorSilentlyDropped ==
    /\ results # NoResults =>
          \A i \in DOMAIN df :
              Defective(df[i]) => i + 1 \in ErrorRowNums(results) \cup IssueRowNums(results)
    /\ session_results # NoResults =>
          \A i \in DOMAIN df :
              Defective(df[i])
                  => i + 1 \in ErrorRowNums(session_results) \cup IssueRowNums(session_results)

\* the issues of the whitelist check that list row i of df
UnallowedIssuesOf(res, i) ==
    {k \in DOMAIN res.unallowed_combinations :
         res.unallowed_combinations[k].row_numbers = <<i + 1>>}

\* what the whitelist asks of a row: flagged once if both types are given and
\* the pair is not allowed, not flagged otherwise
WhitelistVerdict(i) ==
    IF /\ df[i].stype \notin {NaN, ""} /\ df[i].req \notin {NaN, ""}
       /\ <<df[i].stype, df[i].req>> \notin ALLOWED_COMBINATIONS
    THEN 1 ELSE 0

\* C12: every valid row has exactly one issue of the whitelist check if its
\* service type and requirement type are both non-empty and the pair is
\* absent from the allowed combinations, and none otherwise; every issue of
\* the check lists one valid row. The chunk loop gives the same verdict on
\* every row of the table.
C12_WhitelistCompleteness ==
    /\ results # NoResults =>
          /\ \A i \in DOMAIN df :
                Cardinality(UnallowedIssuesOf(results, i))
                    = (IF i + 1 \in {valid_df[k].row_num : k \in DOMAIN valid_df}
                       THEN WhitelistVerdict(i) ELSE 0)
          /\ \A k \in DOMAIN results.unallowed_combinations :
                /\ Len(results.unallowed_combinations[k].row_numbers) = 1
                /\ results.unallowed_combinations[k].row_numbers[1] - 1 \in DOMAIN df
    /\ session_results # NoResults =>
          \A i \in DOMAIN df :
              Cardinality(UnallowedIssuesOf(session_results, i)) = WhitelistVerdict(i)

\* a run with a valid row flagged once and a valid row of no requirement
\* type not flagged
C12_Witness ==
    /\ results # NoResults
    /\ \E i \in DOMAIN df, j \in DOMAIN df :
          /\ {i + 1, j + 1} \subseteq {valid_df[k].row_num : k \in DOMAIN valid_df}
          /\ Cardinality(UnallowedIssuesOf(results, i)) = 1
          /\ df[j].req \in {NaN, ""}
          /\ UnallowedIssuesOf(results, j) = {}

\* the checkers that raise in a run of analyze_workforce_data: the duplicate
\* check when the service type column holds no string, the over-allocation
\* check when no row is valid
DuplicateCheckFaults == df # <<>> /\ \A i \in DOMAIN df : df[i].stype = NaN

OverAllocationCheckFaults == valid_df = <<>>

\* the 'ANALYSIS ERROR' entries of a result for one checker
SyntheticEntries(res, check) ==
    {k \in DOMAIN res.error_rows :
         /\ res.error_rows[k].employee_name = "ANALYSIS ERROR"
         /\ res.error_rows[k].shift_type = check
         /\ Len(res.error_rows[k].errors) = 1}

AllIssues(res) ==
    res.duplicate_allocations \o res.over_allocations \o res.unallowed_combinations

\* every row number an issue lists is that of a row of the table and of the
\* employee the issue names
IssuesNameTheirRows(res) ==
    \A k \in DOMAIN AllIssues(res) :
        \A n \in Range(AllIssues(res)[k].row_numbers) :
            /\ n - 1 \in DOMAIN df
            /\ df[n - 1].emp = AllIssues(res)[k].employee_name

\* C15: the row at 0-based position p of the input has row number p + 2 (row
\* i of df, counted from 1, has i + 1), whether kept or quarantined; error
\* rows and issues of both pipelines report that number, however many
\* earlier rows were quarantined or filtered out.
C15_RowNumbering ==
    /\ Validated =>
          /\ \A i \in DOMAIN df : df[i].row_num = i + 1
          /\ \A k \in DOMAIN valid_df :
                /\ valid_df[k].row_num - 1 \in DOMAIN df
                /\ valid_df[k] = df[valid_df[k].row_num - 1]
          /\ \A k \in DOMAIN error_rows :
                /\ error_rows[k].row_number - 1 \in DOMAIN df
                /\ error_rows[k].employee_name = df[error_rows[k].row_number - 1].emp
                /\ error_rows[k].start_date = df[error_rows[k].row_number - 1].start
                /\ error_rows[k].end_date = df[error_rows[k].row_number - 1].end
                /\ error_rows[k].shift_type = df[error_rows[k].row_number - 1].stype
    /\ results # NoResults =>
          /\ IssuesNameTheirRows(results)
          /\ \A k \in DOMAIN results.unallowed_combinations :
                df[results.unallowed_combinations[k].row_numbers[1] - 1].stype
                    = results.unallowed_combinations[k].shift_type
    /\ session_results # NoResults =>
          /\ IssuesNameTheirRows(session_results)
          /\ \A k \in DOMAIN session_results.unallowed_combinations :
                df[session_results.unallowed_combinations[k].row_numbers[1] - 1].stype
                    = session_results.unallowed_combinations[k].shift_type

\* the first row was quarantined and an issue lists the second row as row 3
C15_Witness ==
    /\ results # NoResults
    /\ Len(df) = 2
    /\ \E k \in DOMAIN results.error_rows : results.error_rows[k].row_number = 2
    /\ \E k \in DOMAIN results.unallowed_combinations :
          results.unallowed_combinations[k].row_numbers = <<3>>

IssueSets(res) ==
    <<Range(res.duplicate_allocations), Range(res.over_allocations),
      Range(res.unallowed_combinations)>>

KeptIdx == {valid_df[k].row_num - 1 : k \in DOMAIN valid_df}

KeptPairs == {p \in KeptIdx \X KeptIdx : p[1] < p[2]}

\* the service types of the model that hold "shift" in any letter case
MarkedTypes ==
    {"Day Shift", "L - Day Shift", "Sleep In Shift", "Floating Shift", "Ad hoc Shift",
     "NIGHT SHIFT"}

BothShifts(i, j) == df[i].stype \in MarkedTypes /\ df[j].stype \in MarkedTypes

SameEmployee(i, j) == df[i].emp = df[j].emp

SameStartDate(i, j) == StartDt(df[i]) \div 1440 = StartDt(df[j]) \div 1440

\* start1 < end2 AND start2 < end1
Overlaps(i, j) == StartDt(df[i]) < EndDt(df[j]) /\ StartDt(df[j]) < EndDt(df[i])

\* min(end1, end2) - max(start1, start2), in minutes
OverlapOf(i, j) ==
    (IF EndDt(df[i]) < EndDt(df[j]) THEN EndDt(df[i]) ELSE EndDt(df[j]))
        - (IF StartDt(df[i]) > StartDt(df[j]) THEN StartDt(df[i]) ELSE StartDt(df[j]))

\* the issues that pair rows i and j
IssuesOfPair(i, j) ==
    {k \in DOMAIN results.duplicate_allocations :
         Range(results.duplicate_allocations[k].row_numbers) = {i + 1, j + 1}}

Flagged(i, j) == IssuesOfPair(i, j) # {}

\* the place of row i among the shift rows of its employee and start date
PlaceInGroup(i) ==
    Cardinality({k \in KeptIdx : k <= i /\ df[k].stype \in MarkedTypes
                                  /\ SameEmployee(k, i) /\ SameStartDate(k, i)})

\* row i comes before row j in the time-sorted group
SortsBefore(i, j) ==
    \/ StartDt(df[i]) < StartDt(df[j])
    \/ StartDt(df[i]) = StartDt(df[j]) /\ tieRank[PlaceInGroup(i)] < tieRank[PlaceInGroup(j)]

\* same location and the ordered pair (earlier-sorted type, later-sorted type) allowed
AllowListed(i, j) ==
    /\ df[i].loc = df[j].loc
    /\ df[i].loc # NaN
    /\ IF SortsBefore(i, j)
       THEN <<df[i].stype, df[j].stype>> \in ALLOWED_SAME_LOCATION_OVERLAPS
       ELSE <<df[j].stype, df[i].stype>> \in ALLOWED_SAME_LOCATION_OVERLAPS

\* C4 as stated: two shifts of one employee, not allow-listed, that overlap
\* by tolerance + 1 minutes produce an issue, by exactly the tolerance none,
\* and shifts that do not overlap never do.
C4_ToleranceBoundary ==
    results # NoResults =>
        \A p \in KeptPairs :
            LET i == p[1]
                j == p[2]
            IN  /\ Flagged(i, j) => Overlaps(i, j)
                /\ Overlaps(i, j) /\ OverlapOf(i, j) = BUFFER_MINUTES => ~Flagged(i, j)
                /\ (/\ SameEmployee(i, j) /\ BothShifts(i, j) /\ ~AllowListed(i, j)
                    /\ Overlaps(i, j) /\ OverlapOf(i, j) = BUFFER_MINUTES + 1)
                       => Flagged(i, j)

\* C4, amended: the same for two shifts of one employee that start on the same
\* calendar date; an overlap of at most the tolerance never produces an issue
\* and one above it always does.
C4_ToleranceBoundarySameDate ==
    results # NoResults =>
        \A p \in KeptPairs :
            LET i == p[1]
                j == p[2]
            IN  /\ Flagged(i, j) => Overlaps(i, j) /\ OverlapOf(i, j) > BUFFER_MINUTES
                /\ (/\ SameEmployee(i, j) /\ BothShifts(i, j) /\ ~AllowListed(i, j)
                    /\ SameStartDate(i, j)
                    /\ Overlaps(i, j) /\ OverlapOf(i, j) >= BUFFER_MINUTES + 1)
                       => Flagged(i, j)

\* one run with a pair overlapping by exactly the tolerance and none flagged
\* for it, and a pair overlapping by one minute more and flagged
C4_Witness ==
    /\ results # NoResults
    /\ \E p \in KeptPairs, q \in KeptPairs :
          /\ SameEmployee(p[1], p[2]) /\ BothShifts(p[1], p[2]) /\ ~AllowListed(p[1], p[2])
          /\ SameStartDate(p[1], p[2])
          /\ Overlaps(p[1], p[2]) /\ OverlapOf(p[1], p[2]) = BUFFER_MINUTES
          /\ ~Flagged(p[1], p[2])
          /\ SameStartDate(q[1], q[2])
          /\ Overlaps(q[1], q[2]) /\ OverlapOf(q[1], q[2]) = BUFFER_MINUTES + 1
          /\ Flagged(q[1], q[2])

\* "J. Smith", two "Day Shift" rows 09:00-17:00 and 16:45-20:00 of one day at
\* different locations
JSmithScenario ==
    /\ Len(df) = 2
    /\ \A i \in 1..2 : df[i].emp = "J. Smith" /\ df[i].stype = "Day Shift"
    /\ df[1].start = T(15, 9, 0) /\ df[1].end = T(15, 17, 0)
    /\ df[2].start = T(15, 16, 45) /\ df[2].end = T(15, 20, 0)
    /\ df[1].loc # df[2].loc

\* C5: the tolerance is a parameter of the rule configuration: whichever of 15
\* and 10 minutes is configured, the scenario yields what that tolerance
\* implies for its 15-minute overlap: no issue under 15, one issue listing
\* both rows under 10.
C5_ToleranceIsConfigurable ==
    \A overlapToleranceMinutes \in {15, 10} :
        results # NoResults /\ JSmithScenario =>
            IF OverlapOf(1, 2) > overlapToleranceMinutes
            THEN /\ Len(results.duplicate_allocations) = 1
                 /\ Range(results.duplicate_allocations[1].row_numbers) = {2, 3}
            ELSE results.duplicate_allocations = <<>>

\* C6 as stated: an over-tolerance pair of shifts of one employee is
\* suppressed iff it is allow-listed at one location; every other such pair
\* is an issue.
C6_AllowListSuppression ==
    results # NoResults =>
        \A p \in KeptPairs :
            (/\ SameEmployee(p[1], p[2]) /\ BothShifts(p[1], p[2])
             /\ Overlaps(p[1], p[2]) /\ OverlapOf(p[1], p[2]) > BUFFER_MINUTES)
                => (~Flagged(p[1], p[2]) <=> AllowListed(p[1], p[2]))

\* C6, amended: the same for pairs that start on the same calendar date.
C6_AllowListSuppressionSameDate ==
    results # NoResults =>
        \A p \in KeptPairs :
            (/\ SameEmployee(p[1], p[2]) /\ BothShifts(p[1], p[2])
             /\ SameStartDate(p[1], p[2])
             /\ Overlaps(p[1], p[2]) /\ OverlapOf(p[1], p[2]) > BUFFER_MINUTES)
                => (~Flagged(p[1], p[2]) <=> AllowListed(p[1], p[2]))

\* one run with a suppressed pair, and a flagged pair whose types are allowed
\* but whose locations differ
C6_Witness ==
    /\ results # NoResults
    /\ \E p \in KeptPairs, q \in KeptPairs :
          /\ SameEmployee(p[1], p[2]) /\ BothShifts(p[1], p[2]) /\ SameStartDate(p[1], p[2])
          /\ Overlaps(p[1], p[2]) /\ OverlapOf(p[1], p[2]) > BUFFER_MINUTES
          /\ AllowListed(p[1], p[2]) /\ ~Flagged(p[1], p[2])
          /\ Flagged(q[1], q[2])
          /\ df[q[1]].loc # df[q[2]].loc
          /\ <<df[q[1]].stype, df[q[2]].stype>> \in ALLOWED_SAME_LOCATION_OVERLAPS
          /\ <<df[q[2]].stype, df[q[1]].stype>> \in ALLOWED_SAME_LOCATION_OVERLAPS

\* a row without its row number, and the pairs a result flags: the two rows
\* and the overlap minutes
Content(row) == [row EXCEPT !.row_num = 0]

FlaggedContents(table, res) ==
    {<<{Content(table[n - 1]) : n \in Range(res.duplicate_allocations[k].row_numbers)},
       res.duplicate_allocations[k].overlap_minutes>> : k \in DOMAIN res.duplicate_allocations}

SwapFirstTwo(table) ==
    [i \in DOMAIN table |-> Content(IF i = 1 THEN table[2] ELSE IF i = 2 THEN table[1] ELSE table[i])]

\* C7: every pair flagged, with its overlap minutes, is flagged with the same
\* minutes when the first two rows of the input are given in the other order.
C7_OverlapSymmetry ==
    results # NoResults /\ Len(df) >= 2 =>
        FlaggedContents(df, results)
            \subseteq FlaggedContents(SwapFirstTwo(df), AnalysisOf(SwapFirstTwo(df)))

\* the pairs of one (employee, start date) group that overlap beyond the
\* tolerance and are not allow-listed
QualifyingPairs(emp, date) ==
    {p \in KeptPairs :
         /\ df[p[1]].emp = emp /\ df[p[2]].emp = emp
         /\ StartDt(df[p[1]]) \div 1440 = date /\ StartDt(df[p[2]]) \div 1440 = date
         /\ BothShifts(p[1], p[2])
         /\ Overlaps(p[1], p[2]) /\ OverlapOf(p[1], p[2]) > BUFFER_MINUTES
         /\ ~AllowListed(p[1], p[2])}

\* C8: only rows whose service type holds "shift" are ever listed; each
\* (employee, date) group has as many issues as it has qualifying pairs, one
\* per pair; three shifts that all qualify pairwise give three issues.
C8_OneIssuePerPair ==
    results # NoResults =>
        /\ \A n \in RowNumsOf(results.duplicate_allocations) : df[n - 1].stype \in MarkedTypes
        /\ \A i \in KeptIdx :
              Cardinality({k \in DOMAIN results.duplicate_allocations :
                               /\ results.duplicate_allocations[k].employee_name = df[i].emp
                               /\ results.duplicate_allocations[k].date = StartDt(df[i]) \div 1440})
                  = Cardinality(QualifyingPairs(df[i].emp, StartDt(df[i]) \div 1440))
        /\ \A p \in KeptPairs : Cardinality(IssuesOfPair(p[1], p[2])) <= 1
        /\ \A a \in KeptIdx, b \in KeptIdx, c \in KeptIdx :
              {<<a, b>>, <<b, c>>, <<a, c>>} \subseteq QualifyingPairs(df[a].emp, StartDt(df[a]) \div 1440)
                  => /\ Flagged(a, b) /\ Flagged(b, c) /\ Flagged(a, c)
                     /\ Cardinality(IssuesOfPair(a, b) \cup IssuesOfPair(b, c) \cup IssuesOfPair(a, c)) = 3

\* three shifts overlapping pairwise gave three issues, beside a row that is no shift
C8_Witness ==
    /\ results # NoResults
    /\ Len(results.duplicate_allocations) = 3
    /\ \E a \in KeptIdx, b \in KeptIdx, c \in KeptIdx :
          a < b /\ b < c /\ Flagged(a, b) /\ Flagged(b, c) /\ Flagged(a, c)

(***************************************************************************)
(* Properties of the quota checker.                                        *)
(***************************************************************************)
\* the (employee, date) groups and the combinations present in each
QuotaGroups == {<<df[i].emp, StartDt(df[i]) \div 1440>> : i \in KeptIdx}

GroupMembers(g, combo) ==
    {i \in KeptIdx : /\ df[i].emp = g[1] /\ StartDt(df[i]) \div 1440 = g[2]
                     /\ <<df[i].stype, df[i].rate>> = combo}

CombosOf(g) ==
    {<<df[i].stype, df[i].rate>> :
         i \in {k \in KeptIdx : df[k].emp = g[1] /\ StartDt(df[k]) \div 1440 = g[2]}}

DurationOf(i) ==
    IF EndDt(df[i]) > StartDt(df[i]) THEN EndDt(df[i]) - StartDt(df[i]) ELSE 0

\* the measured value of a combination in a group, in minutes
Measured(g, combo) ==
    LET members == GroupMembers(g, combo)
    IN  SumOver(members, [i \in members |-> DurationOf(i)])

ComboIssuesOf(g, combo) ==
    {k \in DOMAIN results.over_allocations :
         /\ results.over_allocations[k].employee_name = g[1]
         /\ results.over_allocations[k].date = g[2]
         /\ results.over_allocations[k].shift_type = combo}

\* the comparison as the claim words it, the equality operator being "="
FailsAsStated(operator, value, threshold) ==
    \/ operator = "<=" /\ value > threshold
    \/ operator = ">=" /\ value < threshold
    \/ operator = "<" /\ value >= threshold
    \/ operator = ">" /\ value <= threshold
    \/ operator = "=" /\ value # threshold

\* the same with the equality operator spelled "=="; no other string fails
FailsAsCoded(operator, value, threshold) ==
    \/ operator = "<=" /\ value > threshold
    \/ operator = ">=" /\ value < threshold
    \/ operator = "<" /\ value >= threshold
    \/ operator = ">" /\ value <= threshold
    \/ operator = "==" /\ value # threshold

ConfiguredOperator(combo) ==
    IF SHIFT_TYPE_LIMITS[combo].kind = "dict" THEN SHIFT_TYPE_LIMITS[combo].operator ELSE "<="

\* C9 as stated: for every group and combination present, an issue is emitted
\* iff the combination has a limit and the measured value fails the
\* configured comparison, '=' failing when the value differs from the threshold.
C9_QuotaOperators ==
    results # NoResults =>
        \A g \in QuotaGroups : \A combo \in CombosOf(g) :
            ComboIssuesOf(g, combo) # {}
                <=> /\ combo \in DOMAIN SHIFT_TYPE_LIMITS
                    /\ FailsAsStated(ConfiguredOperator(combo), Measured(g, combo),
                                     SHIFT_TYPE_LIMITS[combo].value * 60)

\* C9, amended: the same with the equality operator spelled '==': a limit
\* whose operator is none of '<=', '>=', '<', '>', '==' never produces an
\* issue; a combination has at most one issue, listing exactly its rows.
C9_QuotaOperatorsAsCoded ==
    results # NoResults =>
        \A g \in QuotaGroups : \A combo \in CombosOf(g) :
            /\ ComboIssuesOf(g, combo) # {}
                  <=> /\ combo \in DOMAIN SHIFT_TYPE_LIMITS
                      /\ FailsAsCoded(ConfiguredOperator(combo), Measured(g, combo),
                                      SHIFT_TYPE_LIMITS[combo].value * 60)
            /\ Cardinality(ComboIssuesOf(g, combo)) <= 1
            /\ \A k \in ComboIssuesOf(g, combo) :
                  Range(results.over_allocations[k].row_numbers)
                      = {i + 1 : i \in GroupMembers(g, combo)}

\* under "<", one day's total on the threshold is an issue and another day's
\* total one hour below it is none
C9_Witness ==
    /\ results # NoResults
    /\ SHIFT_TYPE_LIMITS[<<"Day Shift", "Hourly">>].operator = "<"
    /\ \E g \in QuotaGroups, h \in QuotaGroups :
          /\ Measured(g, <<"Day Shift", "Hourly">>)
                 = SHIFT_TYPE_LIMITS[<<"Day Shift", "Hourly">>].value * 60
          /\ ComboIssuesOf(g, <<"Day Shift", "Hourly">>) # {}
          /\ Measured(h, <<"Day Shift", "Hourly">>)
                 = (SHIFT_TYPE_LIMITS[<<"Day Shift", "Hourly">>].value - 1) * 60
          /\ GroupMembers(h, <<"Day Shift", "Hourly">>) # {}
          /\ ComboIssuesOf(h, <<"Day Shift", "Hourly">>) = {}

\* sixteen "Day Shift"/"Hourly" records of one employee, all starting in one
\* ISO week (Monday to Sunday), under the limit {"<=", 15}
SixteenInOneWeek ==
    /\ Len(df) = 16
    /\ KeptIdx = 1..16
    /\ \A i \in 1..16 : /\ df[i].emp = df[1].emp
                        /\ df[i].stype = "Day Shift" /\ df[i].rate = "Hourly"
                        /\ ((StartDt(df[i]) \div 1440) - 1) \div 7
                               = ((StartDt(df[1]) \div 1440) - 1) \div 7
    /\ SHIFT_TYPE_LIMITS[<<"Day Shift", "Hourly">>] = Limit("<=", 15)

\* C10: sixteen such records produce exactly one over-allocation issue, which
\* lists the sixteen records and reports the figure 16.
C10_WeeklyCountSixteen ==
    results # NoResults /\ SixteenInOneWeek =>
        /\ Len(results.over_allocations) = 1
        /\ results.over_allocations[1].shift_type = <<"Day Shift", "Hourly">>
        /\ Cardinality(Range(results.over_allocations[1].row_numbers)) = 16
        /\ results.over_allocations[1].actual_hours = 16 * 60

\* C16: every combination-limit issue lists, once each, the row numbers of
\* the valid rows of its employee, its date and its (service type, rate type)
\* combination, and no other row.
C16_QuotaRowAttribution ==
    results # NoResults =>
        \A k \in DOMAIN results.over_allocations :
            LET issue == results.over_allocations[k]
                rows == GroupMembers(<<issue.employee_name, issue.date>>, issue.shift_type)
            IN  /\ Range(issue.row_numbers) = {i + 1 : i \in rows}
                /\ Len(issue.row_numbers) = Cardinality(rows)
                /\ rows # {}

\* an issue that lists one row of a two-row group whose other row is of
\* another combination
C16_Witness ==
    /\ results # NoResults
    /\ Len(df) = 2
    /\ df[1].emp = df[2].emp
    /\ StartDt(df[1]) \div 1440 = StartDt(df[2]) \div 1440
    /\ <<df[1].stype, df[1].rate>> # <<df[2].stype, df[2].rate>>
    /\ \E k \in DOMAIN results.over_allocations :
          Len(results.over_allocations[k].row_numbers) = 1

\* the summed hours of a group over all its combinations, in minutes
BucketTotal(g) ==
    LET members == {i \in KeptIdx : df[i].emp = g[1] /\ StartDt(df[i]) \div 1440 = g[2]}
    IN  SumOver(members, [i \in members |-> DurationOf(i)])

\* employeeHourLimits[employee] if listed, otherwise defaultHourLimit
EffectiveHourLimit(emp) ==
    IF emp \in DOMAIN EMPLOYEE_HOUR_LIMITS THEN EMPLOYEE_HOUR_LIMITS[emp] ELSE DEFAULT_HOUR_LIMIT

\* the issues of a group that are no combination-limit issues
AggregateIssuesOf(g) ==
    {k \in DOMAIN results.over_allocations :
         /\ results.over_allocations[k].employee_name = g[1]
         /\ results.over_allocations[k].date = g[2]
         /\ results.over_allocations[k].issue_type # "Shift Type Hour Over-allocation"}

\* C11: for every group, when the effective hour limit of the employee is
\* non-negative and the summed hours of the bucket exceed it, an issue naming
\* the total and the limit is emitted; when the limit is negative, none is.
C11_AggregateHourCap ==
    results # NoResults =>
        \A g \in QuotaGroups :
            /\ (EffectiveHourLimit(g[1]) >= 0 /\ BucketTotal(g) > EffectiveHourLimit(g[1]) * 60)
                   => \E k \in AggregateIssuesOf(g) :
                          /\ results.over_allocations[k].actual_hours = BucketTotal(g)
                          /\ results.over_allocations[k].limit_hours = EffectiveHourLimit(g[1])
            /\ EffectiveHourLimit(g[1]) < 0 => AggregateIssuesOf(g) = {}

(***************************************************************************)
(* Properties of the chunk loop.                                           *)
(***************************************************************************)
\* one pass over the whole table: the whitelist check, then the overlap and
\* quota checks on the rows it did not flag
RowsPastWhitelist ==
    LET rows == WithRowNums(df)
        flagged == RowNumsOf(check_unallowed_combinations(rows))
    IN  WithoutRowNums(rows, flagged)

\* C14: the chunk loop reports the overlap and quota issues that one grouping
\* pass over the whole table gives, none lost and none added.
C14_ChunkBoundarySafety ==
    session_results # NoResults =>
        /\ Range(session_results.duplicate_allocations)
               = Range(check_duplicate_allocations(RowsPastWhitelist))
        /\ Range(session_results.over_allocations)
               = Range(check_over_allocations(RowsPastWhitelist))

(***************************************************************************)
(* Properties of the grouping of the overlap detector.                     *)
(***************************************************************************)
\* every issue of the list pairs two rows of the table, of one employee,
\* that start on one calendar date
PairsOfOneDay(issues) ==
    \A k \in DOMAIN issues :
        \E i \in DOMAIN df, j \in DOMAIN df :
            /\ i # j
            /\ Range(issues[k].row_numbers) = {i + 1, j + 1}
            /\ df[i].emp = df[j].emp
            /\ StartDt(df[i]) # None /\ StartDt(df[j]) # None
            /\ StartDt(df[i]) \div 1440 = StartDt(df[j]) \div 1440

\* C22: every Duplicate Allocation issue pairs two rows of the same employee
\* whose start timestamps fall on the same calendar date; two shifts of one
\* employee that start on different dates are never reported, whatever
\* their overlap.
C22_SameDayGrouping ==
    /\ results # NoResults =>
          /\ PairsOfOneDay(results.duplicate_allocations)
          /\ \A p \in KeptPairs :
                 SameEmployee(p[1], p[2]) /\ ~SameStartDate(p[1], p[2])
                     => ~Flagged(p[1], p[2])
    /\ session_results # NoResults => PairsOfOneDay(session_results.duplicate_allocations)

\* a run with two shifts of one employee, not allow-listed, that start on
\* different dates and overlap by more than the tolerance, and no issue
C22_Witness ==
    /\ results # NoResults
    /\ \E p \in KeptPairs :
           /\ SameEmployee(p[1], p[2]) /\ BothShifts(p[1], p[2])
           /\ ~AllowListed(p[1], p[2])
           /\ ~SameStartDate(p[1], p[2])
           /\ Overlaps(p[1], p[2]) /\ OverlapOf(p[1], p[2]) > BUFFER_MINUTES
           /\ results.duplicate_allocations = <<>>

(***************************************************************************)
(* Properties of the coupling of the checkers in the chunk loop.           *)
(***************************************************************************)
\* the row numbers the whitelist check of the chunk loop flagged
WhitelistFlagged == RowNumsOf(session_results.unallowed_combinations)

\* the rows the quota check of the chunk loop sums for an issue: those of
\* the issue's employee, date and combination that the whitelist let pass
UnflaggedMembers(issue) ==
    {i \in DOMAIN df : /\ (i + 1) \notin WhitelistFlagged
                       /\ df[i].emp = issue.employee_name
                       /\ RowDate(df[i]) = issue.date
                       /\ <<df[i].stype, df[i].rate>> = issue.shift_type}

\* C23: in the output of the "Run Analysis" loop no row number is both in an
\* Unallowed Combination issue and in a Duplicate Allocation or
\* over-allocation issue, and an over-allocation issue sums, and lists, only
\* rows the whitelist check did not flag.
C23_WhitelistGatesOtherCheckers ==
    session_results # NoResults =>
        /\ WhitelistFlagged \cap (RowNumsOf(session_results.duplicate_allocations)
                                      \cup RowNumsOf(session_results.over_allocations)) = {}
        /\ \A k \in DOMAIN session_results.over_allocations :
               LET issue == session_results.over_allocations[k]
                   members == UnflaggedMembers(issue)
               IN  /\ Range(issue.row_numbers) = {i + 1 : i \in members}
                   /\ issue.actual_hours
                          = SumOver(members, [i \in members |->
                                calculate_hours(StartDt(df[i]), EndDt(df[i]))])

\* the loop has flagged a row, reports an over-allocation, and its overlap
\* result is not the one the overlap check gives over the validated rows
C23_Witness ==
    /\ session_results # NoResults
    /\ WhitelistFlagged # {}
    /\ session_results.over_allocations # <<>>
    /\ session_results.duplicate_allocations
           # AnalysisOf(df).duplicate_allocations

(***************************************************************************)
(* Properties of rows that end before they start.                          *)
(***************************************************************************)
EndsBeforeStart(i) ==
    /\ StartDt(df[i]) # None
    /\ EndDt(df[i]) # None
    /\ EndDt(df[i]) < StartDt(df[i])

\* C20: a row whose end precedes its start is not quarantined and counts as
\* 0 hours: the (employee, date, combination) group it is in is judged, and
\* reported, on the sum of the hours of its other rows.
C20_BackwardShiftCountsZero ==
    results # NoResults =>
        /\ \A i \in DOMAIN df : EndsBeforeStart(i) => (i + 1) \notin ErrorRowNums(results)
        /\ \A g \in QuotaGroups : \A combo \in CombosOf(g) :
              (\E i \in GroupMembers(g, combo) : EndsBeforeStart(i)) =>
                  /\ ComboIssuesOf(g, combo) # {}
                        <=> /\ combo \in DOMAIN SHIFT_TYPE_LIMITS
                            /\ FailsAsCoded(ConfiguredOperator(combo), Measured(g, combo),
                                            SHIFT_TYPE_LIMITS[combo].value * 60)
                  /\ \A k \in ComboIssuesOf(g, combo) :
                        results.over_allocations[k].actual_hours = Measured(g, combo)

\* what the code does: such a row is not quarantined and counts with its
\* negative hours
C20_BackwardShiftCountsNegative ==
    results # NoResults =>
        /\ \A i \in DOMAIN df : EndsBeforeStart(i) => (i + 1) \notin ErrorRowNums(results)
        /\ \A g \in QuotaGroups : \A combo \in CombosOf(g) :
              LET members == GroupMembers(g, combo)
                  total == SumOver(members, [i \in members |-> EndDt(df[i]) - StartDt(df[i])])
              IN  /\ ComboIssuesOf(g, combo) # {}
                        <=> /\ combo \in DOMAIN SHIFT_TYPE_LIMITS
                            /\ FailsAsCoded(ConfiguredOperator(combo), total,
                                            SHIFT_TYPE_LIMITS[combo].value * 60)
                  /\ \A k \in ComboIssuesOf(g, combo) :
                        results.over_allocations[k].actual_hours = total

(***************************************************************************)
(* Properties of the rate checker.                                         *)
(***************************************************************************)
\* the issues of check_rate_mismatches that list the row
RateIssuesOf(row) ==
    {k \in DOMAIN rate_issues : rate_issues[k].row_numbers = <<row.row_num>>}

\* the expected rate as stated: under (sheet,) first, under (service, rate type) if absent
StatedExpectedRate(row) ==
    IF <<StrStrip(row.sheet)>> \in DOMAIN RATE_CARD_MAP
    THEN RATE_CARD_MAP[<<StrStrip(row.sheet)>>]
    ELSE IF <<StrStrip(row.stype), StrStrip(row.rate)>> \in DOMAIN RATE_CARD_MAP
         THEN RATE_CARD_MAP[<<StrStrip(row.stype), StrStrip(row.rate)>>]
         ELSE None

\* |actual - expected| > 0.01 on amounts of whole pence
MoreThanAPennyApart(actual, expected) ==
    actual - expected > 1 \/ expected - actual > 1

NonNullPay(row) == row.pay.kind \in {"number", "text"}

\* C18: for every valid row with a non-null actual rate, a Rate Mismatch
\* issue is emitted if and only if an expected rate is found (under the
\* sheet key first, under (service type, rate type) otherwise), the actual
\* rate is numeric and the two are more than 0.01 apart; the issue carries
\* that expected rate; a non-numeric rate gives no issue and no error row.
C18_RateConsistency ==
    rate_issues # NotRun =>
        \A i \in DOMAIN valid_df :
            LET row == valid_df[i]
                expected == StatedExpectedRate(row)
            IN  NonNullPay(row) =>
                   /\ RateIssuesOf(row) # {}
                          <=> /\ expected # None
                              /\ row.pay.kind = "number"
                              /\ MoreThanAPennyApart(row.pay.pence, expected)
                   /\ \A k \in RateIssuesOf(row) : rate_issues[k].limit_hours = expected
                   /\ row.pay.kind = "text" =>
                          \A k \in DOMAIN error_rows : error_rows[k].row_number # row.row_num

\* what the code does instead: the test is the one of the doubles, which
\* also flags some rates exactly one penny from the card's
C18_RateConsistencyInDoubles ==
    rate_issues # NotRun =>
        \A i \in DOMAIN valid_df :
            LET row == valid_df[i]
                expected == StatedExpectedRate(row)
            IN  /\ RateIssuesOf(row) # {}
                       <=> /\ expected # None
                           /\ row.pay.kind = "number"
                           /\ \/ MoreThanAPennyApart(row.pay.pence, expected)
                              \/ <<row.pay.pence, expected>> \in OnePennyAboveTolerance
                /\ Cardinality(RateIssuesOf(row)) <= 1
                /\ \A k \in RateIssuesOf(row) : rate_issues[k].limit_hours = expected
                /\ \A k \in DOMAIN error_rows : error_rows[k].row_number # row.row_num

\* the rate checker ran on a row found under the sheet key, a row one penny
\* off that got no issue, and a row whose rate is text
C18_Witness ==
    /\ rate_issues # NotRun
    /\ \E i \in DOMAIN valid_df :
           /\ <<StrStrip(valid_df[i].sheet)>> \in DOMAIN RATE_CARD_MAP
           /\ RateIssuesOf(valid_df[i]) # {}
    /\ \E i \in DOMAIN valid_df :
           /\ valid_df[i].pay = PayNumber(1636)
           /\ RateIssuesOf(valid_df[i]) = {}

(***************************************************************************)
(* Properties of get_week_number.                                          *)
(***************************************************************************)
\* the Thursday of the Monday-to-Sunday week a day is in
ThursdayOfWeek(ordinal) == ordinal - ((ordinal + 6) % 7) + 3

\* ISO 8601: a week belongs to the year its Thursday is in, and is numbered
\* from the week of that year's first Thursday
IsoYear(ordinal) == YearOf(ThursdayOfWeek(ordinal))

IsoWeek(ordinal) ==
    (ThursdayOfWeek(ordinal) - ToOrdinal(IsoYear(ordinal), 1, 1)) \div 7 + 1

\* C21: for a timestamp get_week_number returns the ISO-8601 week number
\* together with the ISO year of that week; for None it returns (None, None).
C21_IsoWeekAndIsoYear ==
    week_of # NotCalled =>
        IF week_of.dt = None THEN week_of.returned = <<None, None>>
        ELSE week_of.returned
                 = <<IsoWeek(week_of.dt \div 1440), IsoYear(week_of.dt \div 1440)>>

\* what the code returns: the ISO week number with the calendar year
C21_IsoWeekAndCalendarYear ==
    week_of # NotCalled =>
        IF week_of.dt = None THEN week_of.returned = <<None, None>>
        ELSE week_of.returned
                 = <<IsoWeek(week_of.dt \div 1440), YearOf(week_of.dt \div 1440)>>

====
